---- MODULE Spec2Model ----
(***************************************************************************)
(* Vacation Booking API: the reservation routes, the bearer-token gate,    *)
(* the validation chains, the listing of the properties and the parts of   *)
(* the user and property routes that create and remove the rows            *)
(* reservations refer to.                                                  *)
(*                                                                         *)
(* The persistent store is the only shared state.  A handler is a chain of *)
(* segments; a segment is the code that runs from one store access up to   *)
(* (not including) the next one.  The code before the first store access   *)
(* (authenticateJWT, the validation chain, the range check) reads no       *)
(* shared state, so it is part of the first segment.                       *)
(*                                                                         *)
(* Times are instants on one time line: arrivalTime and departureTime are  *)
(* compared as instants both by `new Date(..)` in the handlers and by the  *)
(* DATE columns of the store.  NotADate stands for a body value that the   *)
(* isISO8601 validator refuses.                                            *)
(***************************************************************************)
EXTENDS Integers, FiniteSets, Sequences, TLC

MaxUsers == 2
MaxProperties == 2
MaxReservations == 2
MaxTime == 2

UserIds == 1..MaxUsers
PropertyIds == 1..MaxProperties
ReservationIds == 1..MaxReservations
Times == 0..MaxTime
NotADate == MaxTime + 1
DateInputs == Times \cup {NotADate}
Clients == {"c1", "c2"}

(* db, req and resp are the state of the server.  former is a history of   *)
(* the store, which no handler reads: the intervals of the reservations    *)
(* that were removed or moved, kept by the specification that records it.  *)
VARIABLES db, req, resp, former

vars == <<db, req, resp, former>>

----------------------------------------------------------------------------
(* Routes, requests, responses *)

POST_RESERVATIONS == "POST /reservations"
GET_RESERVATIONS == "GET /reservations"
GET_RESERVATION == "GET /reservations/:id"
PUT_RESERVATION == "PUT /reservations/:id"
DELETE_RESERVATION == "DELETE /reservations/:id"
POST_SIGNUP == "POST /signup"
GET_USER == "GET /users/:id"
PUT_USER == "PUT /users/:id"
DELETE_USER == "DELETE /users/:id"
POST_PROPERTIES == "POST /properties"
PUT_PROPERTY == "PUT /properties/:id"
DELETE_PROPERTY == "DELETE /properties/:id"
GET_PROPERTIES == "GET /properties"

ReservationRoutes ==
    {POST_RESERVATIONS, GET_RESERVATIONS, GET_RESERVATION, PUT_RESERVATION,
     DELETE_RESERVATION}

(* The routes that have authenticateJWT as their first middleware.         *)
ProtectedRoutes ==
    ReservationRoutes
    \cup {GET_USER, PUT_USER, DELETE_USER, POST_PROPERTIES, PUT_PROPERTY,
          DELETE_PROPERTY}

Routes == ProtectedRoutes \cup {POST_SIGNUP}

(* Authorization header: absent, present without the 'Bearer ' prefix,     *)
(* a bearer token jwt.verify refuses, or a token signed for tokenUser.     *)
Headers == {"absent", "not_bearer", "bad_token", "valid"}

(* A request without a body; a request without a query string.            *)
NoBody == [f \in {} |-> 0]

IdleReq ==
    [route |-> "none", pc |-> "idle", hdr |-> "absent", tokenUser |-> 0,
     user |-> 0, id |-> 0, propertyId |-> 0, arrivalTime |-> 0,
     departureTime |-> 0, bodyUserId |-> 0, body |-> NoBody, PropertyId |-> 0,
     query |-> NoBody]

NoResp ==
    [route |-> "none", status |-> 0, error |-> "pending", body |-> {},
     list |-> <<>>]

(* The response to a request of the given route.                           *)
Response(route, status, error) ==
    [route |-> route, status |-> status, error |-> error, body |-> {},
     list |-> <<>>]

(* res.send(properties): the rows in the order of the query.              *)
ResponseList(route, status, rows) ==
    [route |-> route, status |-> status, error |-> "", body |-> {},
     list |-> rows]

(* The rows a listing route sends; the body of the other routes is not     *)
(* modelled.  GET /properties sends its rows in the order of the query, as *)
(* list.                                                                   *)
ResponseBody(route, status, rows) ==
    [route |-> route, status |-> status, error |-> "", body |-> rows,
     list |-> <<>>]

(* A rejected promise of an async handler: the handler sends nothing.      *)
Unhandled(route) ==
    [route |-> route, status |-> 0, error |-> "unhandled rejection", body |-> {},
     list |-> <<>>]

(* The page the framework's own error handler sends (text/html, not a JSON *)
(* body) when the rejection of a handler is passed on to it.               *)
ERR_FRAMEWORK == "<pre>Internal Server Error</pre>"

DefaultError(route) ==
    [route |-> route, status |-> 500, error |-> ERR_FRAMEWORK, body |-> {},
     list |-> <<>>]

ERR_NO_TOKEN == "Access denied. No token provided."
ERR_INVALID_TOKEN == "Invalid token."
ERR_VALIDATION == "errors"
ERR_RANGE == "departureTime must be after arrivalTime."
ERR_BOOKED == "The property is already booked for the requested dates."
ERR_RESERVATION_NOT_FOUND == "Reservation not found."
ERR_USER_NOT_FOUND == "User not found."
ERR_PROPERTY_NOT_FOUND == "Property not found."
ERR_REGISTRATION == "Registration failed. Please try again."
ERR_LIST == "Failed to retrieve properties."

(* One outcome of a segment: the store after it, the request if it is      *)
(* suspended at its next store access (IdleReq when it has ended) and the  *)
(* response sent (NoResp while suspended).                                 *)
Ended(d, r) == [db |-> d, req |-> IdleReq, resp |-> r]

Suspended(d, q) == [db |-> d, req |-> q, resp |-> NoResp]

(* An awaited store call of request r rejects in a handler without        *)
(* try/catch.  Which release of the framework runs is not fixed by the     *)
(* sources: one that does not look at the promise of the handler (nothing  *)
(* is sent, the request stays open) or one that passes the rejection to    *)
(* its default error handler.                                              *)
Rejected(d, r) == {Ended(d, Unhandled(r.route)), Ended(d, DefaultError(r.route))}

(* What a suspended handler keeps of request r is what its closure refers  *)
(* to after the await: the route (the code to resume), the position and    *)
(* the locals and request fields the rest of the handler can read, which   *)
(* the handler fills in.                                                   *)
Continuation(r, pc) == [IdleReq EXCEPT !.route = r.route, !.pc = pc]

----------------------------------------------------------------------------
(* Middleware *)

(* authenticateJWT without the startsWith('Bearer ') test: any header that *)
(* is present goes to jwt.verify.                                          *)
authenticateJWTNoPrefixCheck(r) ==
    IF r.hdr = "absent"
    THEN [next |-> FALSE, user |-> 0, resp |-> Response(r.route, 401, ERR_NO_TOKEN)]
    ELSE IF r.hdr = "valid"
         THEN [next |-> TRUE, user |-> r.tokenUser, resp |-> NoResp]
         ELSE [next |-> FALSE, user |-> 0, resp |-> Response(r.route, 400, ERR_INVALID_TOKEN)]

authenticateJWT(r) ==
    IF r.hdr = "absent" \/ r.hdr = "not_bearer"
    THEN [next |-> FALSE, user |-> 0, resp |-> Response(r.route, 401, ERR_NO_TOKEN)]
    ELSE IF r.hdr = "valid"
         THEN [next |-> TRUE, user |-> r.tokenUser, resp |-> NoResp]
         ELSE [next |-> FALSE, user |-> 0, resp |-> Response(r.route, 400, ERR_INVALID_TOKEN)]

----------------------------------------------------------------------------
(* Validation chains (express-validator).  A body value that is text the   *)
(* predicates look into (email, password) is the sequence of its           *)
(* characters; a field the body does not carry is undefined, which the     *)
(* validators read as the empty text.                                      *)

Upper ==
    {"A", "B", "C", "D", "E", "F", "G", "H", "I", "J", "K", "L", "M", "N", "O",
     "P", "Q", "R", "S", "T", "U", "V", "W", "X", "Y", "Z"}

Lower ==
    {"a", "b", "c", "d", "e", "f", "g", "h", "i", "j", "k", "l", "m", "n", "o",
     "p", "q", "r", "s", "t", "u", "v", "w", "x", "y", "z"}

(* The characters of the class [!@#$%^&*(),.?":{}|<>].                      *)
Special ==
    {"!", "@", "#", "$", "%", "^", "&", "*", "(", ")", ",", ".", "?", "\"", ":",
     "{", "}", "|", "<", ">"}

MinPasswordLength == 10

(* The number NaN-like body values stand for: text that is not a number.   *)
NotANumber == 0 - 1

(* req.body[f], or the given reading of undefined.                         *)
Value(b, f, undefined) == IF f \in DOMAIN b THEN b[f] ELSE undefined

(* /[class]/.test(s)                                                       *)
Matches(s, class) == \E i \in 1..Len(s) : s[i] \in class

(* No character of s[from..to] is whitespace or '@', and there is one.     *)
NoSpaceNoAt(s, from, to) ==
    from <= to /\ \A i \in from..to : s[i] \notin {" ", "@"}

(* /^[^\s@]+@[^\s@]+\.[^\s@]+$/.test(s)                                    *)
MatchesEmailFormat(s) ==
    \E i, j \in 1..Len(s) :
        /\ s[i] = "@" /\ s[j] = "."
        /\ NoSpaceNoAt(s, 1, i - 1)
        /\ NoSpaceNoAt(s, i + 1, j - 1)
        /\ NoSpaceNoAt(s, j + 1, Len(s))

(* isEmail of validator.js on the texts of this model: local@domain with   *)
(* a domain whose last label has two letters or more.                      *)
isEmail(s) ==
    \E i, j \in 1..Len(s) :
        /\ s[i] = "@" /\ s[j] = "."
        /\ NoSpaceNoAt(s, 1, i - 1)
        /\ NoSpaceNoAt(s, i + 1, j - 1)
        /\ j + 2 <= Len(s)
        /\ \A k \in (j + 1)..Len(s) : s[k] \in Upper \cup Lower

(* One validator of a chain: its error when the predicate fails.           *)
Check(ok, path, msg) == IF ok THEN {} ELSE {[path |-> path, msg |-> msg]}

(* The password chain that stops at its first failing validator.           *)
PasswordChainBail(s) ==
    IF Len(s) < MinPasswordLength
    THEN Check(FALSE, "password", "Password must be at least 10 characters long")
    ELSE IF ~Matches(s, Upper)
    THEN Check(FALSE, "password",
               "Password must contain at least one uppercase letter")
    ELSE IF ~Matches(s, Lower)
    THEN Check(FALSE, "password",
               "Password must contain at least one lowercase letter")
    ELSE Check(Matches(s, Special), "password",
               "Password must contain at least one special character")

(* The four validators of the password chain.                              *)
PasswordChain(s) ==
    Check(Len(s) >= MinPasswordLength, "password",
          "Password must be at least 10 characters long")
    \cup Check(Matches(s, Upper), "password",
               "Password must contain at least one uppercase letter")
    \cup Check(Matches(s, Lower), "password",
               "Password must contain at least one lowercase letter")
    \cup Check(Matches(s, Special), "password",
               "Password must contain at least one special character")

(* The three notEmpty chains the user chains share.                        *)
NameChains(b) ==
    Check(Value(b, "firstName", "") # "", "firstName", "First name is required")
    \cup Check(Value(b, "lastName", "") # "", "lastName", "Last name is required")
    \cup Check(Value(b, "phoneNumber", "") # "", "phoneNumber",
               "Phone number is required")

(* validationResult(req).array() after the chains of validateUser.         *)
validateUser(r) ==
    Check(isEmail(Value(r.body, "email", <<>>)), "email", "Must be a valid email")
    \cup Check(MatchesEmailFormat(Value(r.body, "email", <<>>)), "email",
               "Must be a valid email format")
    \cup PasswordChain(Value(r.body, "password", <<>>))
    \cup NameChains(r.body)

(* validateUserUpdate: the password chain is optional(), it runs only on a *)
(* body that carries a password.                                           *)
validateUserUpdate(r) ==
    (IF "password" \in DOMAIN r.body THEN PasswordChain(r.body.password) ELSE {})
    \cup NameChains(r.body)

(* validateProperty.  isFloat({gt: 0}) and isInt({gt: 0}).                 *)
validateProperty(r) ==
    Check(Value(r.body, "name", "") # "", "name", "Name is required")
    \cup Check(Value(r.body, "address", "") # "", "address", "Address is required")
    \cup Check(Value(r.body, "city", "") # "", "city", "City is required")
    \cup Check(LET v == Value(r.body, "price", NotANumber)
               IN v # NotANumber /\ v > 0,
               "price", "Price must be a positive number")
    \cup Check(LET v == Value(r.body, "capacity", NotANumber)
               IN v # NotANumber /\ v > 0,
               "capacity", "Capacity must be a positive integer")

(* validateReservation: the two isISO8601 validators.                      *)
validateReservation(r) ==
    Check(r.arrivalTime \in Times, "arrivalTime", "Must be a valid date")
    \cup Check(r.departureTime \in Times, "departureTime", "Must be a valid date")

(* The last middleware of every chain: res.status(400).json({errors}).     *)
ValidationFailed(route, errors) ==
    [route |-> route, status |-> 400, error |-> ERR_VALIDATION, body |-> errors,
     list |-> <<>>]

(* The range check with < for <=: an empty range passes.                   *)
RangeInvalidStrict(arrivalTime, departureTime) == departureTime < arrivalTime

(* No range check at all.                                                  *)
RangeInvalidNever(arrivalTime, departureTime) == FALSE

(* The range check of router.post('/') and router.put('/:id').             *)
RangeInvalid(arrivalTime, departureTime) == departureTime <= arrivalTime

----------------------------------------------------------------------------
(* Store queries *)

findByPk(rows, id) == {x \in rows : x.id = id}

(* The create query testing only whether the new arrival falls into a     *)
(* stored range.                                                           *)
PostOverlapQueryStartOnly(d, propertyId, arrivalTime, departureTime) ==
    {x \in d.reservations :
        /\ x.PropertyId = propertyId
        /\ x.arrivalTime <= arrivalTime
        /\ x.departureTime > arrivalTime}

(* The create query without the propertyId condition.                      *)
PostOverlapQueryAnyProperty(d, propertyId, arrivalTime, departureTime) ==
    {x \in d.reservations :
        /\ x.arrivalTime < departureTime
        /\ x.departureTime > arrivalTime}

(* The create query with Op.lte / Op.gte: closed intervals.                *)
PostOverlapQueryClosed(d, propertyId, arrivalTime, departureTime) ==
    {x \in d.reservations :
        /\ x.PropertyId = propertyId
        /\ x.arrivalTime <= departureTime
        /\ x.departureTime >= arrivalTime}

(* The create query on a table that keeps removed rows: the intervals that *)
(* left the store still count.                                             *)
PostOverlapQueryWithFormer(d, propertyId, arrivalTime, departureTime) ==
    {x \in d.reservations \cup former :
        /\ x.PropertyId = propertyId
        /\ x.arrivalTime < departureTime
        /\ x.departureTime > arrivalTime}

(* Reservation.findAll of router.post('/').                                *)
PostOverlapQuery(d, propertyId, arrivalTime, departureTime) ==
    {x \in d.reservations :
        /\ x.PropertyId = propertyId
        /\ x.arrivalTime < departureTime
        /\ x.departureTime > arrivalTime}

(* The update query without the id: { [Op.ne]: reservation.id } condition. *)
PutOverlapQueryWithSelf(d, PropertyId, arrivalTime, departureTime, id) ==
    {x \in d.reservations :
        /\ x.PropertyId = PropertyId
        /\ x.arrivalTime < departureTime
        /\ x.departureTime > arrivalTime}

(* Reservation.findAll of router.put('/:id').                              *)
PutOverlapQuery(d, PropertyId, arrivalTime, departureTime, id) ==
    {x \in d.reservations :
        /\ x.PropertyId = PropertyId
        /\ x.arrivalTime < departureTime
        /\ x.departureTime > arrivalTime
        /\ x.id # id}

(* The listing without its where clause.                                   *)
ListQueryAll(d, userId) == d.reservations

(* Reservation.findAll({ where: { UserId } }) of router.get('/').          *)
ListQuery(d, userId) == {x \in d.reservations : x.UserId = userId}

(* The foreign keys of a reservation row, both NOT NULL.                   *)
ForeignKeysHold(d, userId, propertyId) ==
    userId \in d.users /\ findByPk(d.properties, propertyId) # {}

----------------------------------------------------------------------------
(* Handlers: the set of outcomes of the segment of request r that starts   *)
(* at r.pc, run on store d.                                                *)

(* The inserted row with the owner taken from the request body.            *)
NewReservationBodyOwner(d, r) ==
    [id |-> d.nextReservationId, UserId |-> r.bodyUserId,
     PropertyId |-> r.propertyId, arrivalTime |-> r.arrivalTime,
     departureTime |-> r.departureTime]

(* The row Reservation.create inserts for the suspended request r.         *)
NewReservation(d, r) ==
    [id |-> d.nextReservationId, UserId |-> r.user, PropertyId |-> r.propertyId,
     arrivalTime |-> r.arrivalTime, departureTime |-> r.departureTime]

(* POST /reservations with the overlap query repeated in one transaction   *)
(* with the insert.                                                        *)
PostReservationRecheck(d, r) ==
    IF r.pc = "start"
    THEN LET a == authenticateJWT(r) IN
         IF ~a.next THEN {Ended(d, a.resp)}
         ELSE IF validateReservation(r) # {}
         THEN {Ended(d, ValidationFailed(r.route, validateReservation(r)))}
         ELSE IF RangeInvalid(r.arrivalTime, r.departureTime)
         THEN {Ended(d, Response(r.route, 400, ERR_RANGE))}
         ELSE IF PostOverlapQuery(d, r.propertyId, r.arrivalTime, r.departureTime) # {}
         THEN {Ended(d, Response(r.route, 400, ERR_BOOKED))}
         ELSE {Suspended(d, [Continuation(r, "insert") EXCEPT
                                !.user = a.user, !.bodyUserId = r.bodyUserId,
                                !.propertyId = r.propertyId,
                                !.arrivalTime = r.arrivalTime,
                                !.departureTime = r.departureTime])}
    ELSE IF PostOverlapQuery(d, r.propertyId, r.arrivalTime, r.departureTime) # {}
    THEN {Ended(d, Response(r.route, 400, ERR_BOOKED))}
    ELSE IF ForeignKeysHold(d, r.user, r.propertyId)
         THEN {Ended([d EXCEPT !.reservations = @ \cup {NewReservation(d, r)},
                             !.nextReservationId = @ + 1],
                     Response(r.route, 201, ""))}
         ELSE Rejected(d, r)

PostReservation(d, r) ==
    IF r.pc = "start"
    THEN LET a == authenticateJWT(r) IN
         IF ~a.next THEN {Ended(d, a.resp)}
         ELSE IF validateReservation(r) # {}
         THEN {Ended(d, ValidationFailed(r.route, validateReservation(r)))}
         ELSE IF RangeInvalid(r.arrivalTime, r.departureTime)
         THEN {Ended(d, Response(r.route, 400, ERR_RANGE))}
         ELSE IF PostOverlapQuery(d, r.propertyId, r.arrivalTime, r.departureTime) # {}
         THEN {Ended(d, Response(r.route, 400, ERR_BOOKED))}
         ELSE {Suspended(d, [Continuation(r, "insert") EXCEPT
                                !.user = a.user, !.bodyUserId = r.bodyUserId,
                                !.propertyId = r.propertyId,
                                !.arrivalTime = r.arrivalTime,
                                !.departureTime = r.departureTime])}
    ELSE \* Reservation.create
         IF ForeignKeysHold(d, r.user, r.propertyId)
         THEN {Ended([d EXCEPT !.reservations = @ \cup {NewReservation(d, r)},
                             !.nextReservationId = @ + 1],
                     Response(r.route, 201, ""))}
         ELSE Rejected(d, r)

GetReservations(d, r) ==
    LET a == authenticateJWT(r) IN
    IF ~a.next THEN {Ended(d, a.resp)}
    ELSE {Ended(d, ResponseBody(r.route, 200, ListQuery(d, a.user)))}

GetReservation(d, r) ==
    LET a == authenticateJWT(r) IN
    IF ~a.next THEN {Ended(d, a.resp)}
    ELSE IF findByPk(d.reservations, r.id) = {}
    THEN {Ended(d, Response(r.route, 404, ERR_RESERVATION_NOT_FOUND))}
    ELSE {Ended(d, ResponseBody(r.route, 200, findByPk(d.reservations, r.id)))}

(* An update that writes the whole body: the property and the owner the   *)
(* body names replace those of the row.                                    *)
UpdatedReservationFromBody(x, r) ==
    [x EXCEPT !.arrivalTime = r.arrivalTime, !.departureTime = r.departureTime,
              !.PropertyId = r.propertyId, !.UserId = r.bodyUserId]

(* The row x after reservation.update({ arrivalTime, departureTime }) of   *)
(* the suspended request r.                                                *)
UpdatedReservation(x, r) ==
    [x EXCEPT !.arrivalTime = r.arrivalTime, !.departureTime = r.departureTime]

PutReservation(d, r) ==
    IF r.pc = "start"
    THEN LET a == authenticateJWT(r) IN
         IF ~a.next THEN {Ended(d, a.resp)}
         ELSE IF validateReservation(r) # {}
         THEN {Ended(d, ValidationFailed(r.route, validateReservation(r)))}
         ELSE IF findByPk(d.reservations, r.id) = {}
         THEN {Ended(d, Response(r.route, 404, ERR_RESERVATION_NOT_FOUND))}
         ELSE IF RangeInvalid(r.arrivalTime, r.departureTime)
         THEN {Ended(d, Response(r.route, 400, ERR_RANGE))}
         ELSE LET reservation == CHOOSE x \in findByPk(d.reservations, r.id) : TRUE
              IN {Suspended(d, [Continuation(r, "query") EXCEPT
                                    !.id = reservation.id,
                                    !.PropertyId = reservation.PropertyId,
                                    !.propertyId = r.propertyId,
                                    !.bodyUserId = r.bodyUserId,
                                    !.arrivalTime = r.arrivalTime,
                                    !.departureTime = r.departureTime])}
    ELSE IF r.pc = "query"
    THEN IF PutOverlapQuery(d, r.PropertyId, r.arrivalTime, r.departureTime, r.id) # {}
         THEN {Ended(d, Response(r.route, 400, ERR_BOOKED))}
         ELSE {Suspended(d, [r EXCEPT !.pc = "update"])}
    ELSE \* reservation.update: UPDATE .. WHERE id, no row when it is gone
         LET updated == {UpdatedReservation(x, r)
                            : x \in findByPk(d.reservations, r.id)}
         IN {Ended([d EXCEPT !.reservations =
                        (@ \ findByPk(d.reservations, r.id)) \cup updated],
                   Response(r.route, 200, ""))}

DeleteReservation(d, r) ==
    IF r.pc = "start"
    THEN LET a == authenticateJWT(r) IN
         IF ~a.next THEN {Ended(d, a.resp)}
         ELSE IF findByPk(d.reservations, r.id) = {}
         THEN {Ended(d, Response(r.route, 404, ERR_RESERVATION_NOT_FOUND))}
         ELSE {Suspended(d, [Continuation(r, "destroy") EXCEPT !.id = r.id])}
    ELSE {Ended([d EXCEPT !.reservations = @ \ findByPk(d.reservations, r.id)],
                Response(r.route, 200, "Reservation deleted successfully."))}

(* POST /signup.  User.create fails on a duplicate email, which needs a    *)
(* stored user; the failure is caught and answered 400.                    *)
Signup(d, r) ==
    IF validateUser(r) # {} THEN {Ended(d, ValidationFailed(r.route, validateUser(r)))}
    ELSE {Ended([d EXCEPT !.users = @ \cup {d.nextUserId}, !.nextUserId = @ + 1],
                Response(r.route, 201, ""))}
         \cup {Ended(d, Response(r.route, 400, ERR_REGISTRATION)) : x \in d.users}

(* A destroy on a store without the foreign keys: the row goes, the        *)
(* reservations that refer to it stay.                                     *)
DestroyOrphans(d, r, kept, referring, okMessage) ==
    {Ended(kept, Response(r.route, 200, okMessage))}

(* user.destroy / property.destroy: the store either removes the rows that *)
(* refer to the deleted row with it or refuses the delete (both keep the   *)
(* NOT NULL foreign keys of Reservation valid).                            *)
DestroyOutcomes(d, r, kept, referring, okMessage) ==
    {Ended([kept EXCEPT !.reservations = @ \ referring], Response(r.route, 200, okMessage))}
    \cup (IF referring = {} THEN {} ELSE Rejected(d, r))

GetUser(d, r) ==
    LET a == authenticateJWT(r) IN
    IF ~a.next THEN {Ended(d, a.resp)}
    ELSE IF r.id \notin d.users
    THEN {Ended(d, Response(r.route, 404, ERR_USER_NOT_FOUND))}
    ELSE {Ended(d, Response(r.route, 200, ""))}

(* PUT /users/:id writes password, names and phone number, columns the     *)
(* store of this model does not hold.                                      *)
PutUser(d, r) ==
    IF r.pc = "start"
    THEN LET a == authenticateJWT(r) IN
         IF ~a.next THEN {Ended(d, a.resp)}
         ELSE IF validateUserUpdate(r) # {} THEN {Ended(d, ValidationFailed(r.route, validateUserUpdate(r)))}
         ELSE IF r.id \notin d.users
         THEN {Ended(d, Response(r.route, 404, ERR_USER_NOT_FOUND))}
         ELSE {Suspended(d, [Continuation(r, "update") EXCEPT !.id = r.id])}
    ELSE {Ended(d, Response(r.route, 200, ""))}

DeleteUser(d, r) ==
    IF r.pc = "start"
    THEN LET a == authenticateJWT(r) IN
         IF ~a.next THEN {Ended(d, a.resp)}
         ELSE IF r.id \notin d.users
         THEN {Ended(d, Response(r.route, 404, ERR_USER_NOT_FOUND))}
         ELSE {Suspended(d, [Continuation(r, "destroy") EXCEPT !.id = r.id])}
    ELSE DestroyOutcomes(d, r, [d EXCEPT !.users = @ \ {r.id}],
                         {x \in d.reservations : x.UserId = r.id},
                         "User deleted successfully.")

(* The row Property.create(req.body) inserts: of its columns the store of *)
(* this model holds price and capacity.                                    *)
NewProperty(d, r) ==
    [id |-> d.nextPropertyId, price |-> r.body.price,
     capacity |-> r.body.capacity]

PostProperty(d, r) ==
    LET a == authenticateJWT(r) IN
    IF ~a.next THEN {Ended(d, a.resp)}
    ELSE IF validateProperty(r) # {} THEN {Ended(d, ValidationFailed(r.route, validateProperty(r)))}
    ELSE {Ended([d EXCEPT !.properties = @ \cup {NewProperty(d, r)},
                          !.nextPropertyId = @ + 1],
                Response(r.route, 201, ""))}

(* PUT /properties/:id writes the columns of the body; of these the store  *)
(* of this model holds price and capacity.                                 *)
PutProperty(d, r) ==
    IF r.pc = "start"
    THEN LET a == authenticateJWT(r) IN
         IF ~a.next THEN {Ended(d, a.resp)}
         ELSE IF validateProperty(r) # {} THEN {Ended(d, ValidationFailed(r.route, validateProperty(r)))}
         ELSE IF findByPk(d.properties, r.id) = {}
         THEN {Ended(d, Response(r.route, 404, ERR_PROPERTY_NOT_FOUND))}
         ELSE {Suspended(d, [Continuation(r, "update") EXCEPT
                                !.id = r.id, !.body = r.body])}
    ELSE \* property.update: UPDATE .. WHERE id, no row when it is gone
         LET updated == {[x EXCEPT !.price = r.body.price,
                                   !.capacity = r.body.capacity]
                            : x \in findByPk(d.properties, r.id)}
         IN {Ended([d EXCEPT !.properties =
                        (@ \ findByPk(d.properties, r.id)) \cup updated],
                   Response(r.route, 200, ""))}

DeleteProperty(d, r) ==
    IF r.pc = "start"
    THEN LET a == authenticateJWT(r) IN
         IF ~a.next THEN {Ended(d, a.resp)}
         ELSE IF findByPk(d.properties, r.id) = {}
         THEN {Ended(d, Response(r.route, 404, ERR_PROPERTY_NOT_FOUND))}
         ELSE {Suspended(d, [Continuation(r, "destroy") EXCEPT !.id = r.id])}
    ELSE DestroyOutcomes(d, r,
                         [d EXCEPT !.properties = @ \ findByPk(d.properties, r.id)],
                         {x \in d.reservations : x.PropertyId = r.id},
                         "Property deleted successfully.")

----------------------------------------------------------------------------
(* GET /properties *)

PageSize == 6

DigitChars == {"0", "1", "2", "3", "4", "5", "6", "7", "8", "9"}

DigitValue(c) ==
    CASE c = "0" -> 0 [] c = "1" -> 1 [] c = "2" -> 2 [] c = "3" -> 3
      [] c = "4" -> 4 [] c = "5" -> 5 [] c = "6" -> 6 [] c = "7" -> 7
      [] c = "8" -> 8 [] c = "9" -> 9

(* The value of the digits of s from position i on, after the digits with  *)
(* value acc; it ends at the first character that is not a digit.          *)
RECURSIVE ParseDigits(_, _, _)
ParseDigits(s, i, acc) ==
    IF i > Len(s) \/ s[i] \notin DigitChars THEN acc
    ELSE ParseDigits(s, i + 1, acc * 10 + DigitValue(s[i]))

NaN == [isNaN |-> TRUE, value |-> 0]

Number(n) == [isNaN |-> FALSE, value |-> n]

(* parseInt(s, 10): an optional sign and the digits that follow it; what   *)
(* comes after the digits is ignored; NaN when there is no digit.          *)
parseInt(s) ==
    IF s # <<>> /\ s[1] \in DigitChars THEN Number(ParseDigits(s, 1, 0))
    ELSE IF Len(s) >= 2 /\ s[1] = "-" /\ s[2] \in DigitChars
    THEN Number(0 - ParseDigits(s, 2, 0))
    ELSE NaN

(* `if (x)` on a query parameter: present and not the empty text.          *)
Truthy(q, f) == f \in DOMAIN q /\ q[f] # <<>>

(* ORDER BY price with the direction ignored: the cheapest rows first.     *)
FirstCheapest(rows, dir) ==
    {x \in rows : \A y \in rows : x.price <= y.price}

(* The rows that can come first in price order: the cheapest ones when dir *)
(* is 'asc', the dearest ones when it is 'desc'.                           *)
First(rows, dir) ==
    {x \in rows :
        \A y \in rows : IF dir = "asc" THEN x.price <= y.price
                                       ELSE x.price >= y.price}

(* ORDER BY price leaves the order of rows of equal price to the store:    *)
(* every such order is an outcome.                                         *)
RECURSIVE Orders(_, _)
Orders(rows, dir) ==
    IF rows = {} THEN {<<>>}
    ELSE UNION {{<<x>> \o o : o \in Orders(rows \ {x}, dir)} : x \in First(rows, dir)}

(* LIMIT offset, limit on the ordered rows.                                *)
Limit(rows, offset, limit) ==
    LET left == IF Len(rows) > offset THEN Len(rows) - offset ELSE 0
        n == IF left < limit THEN left ELSE limit
    IN [i \in 1..n |-> rows[offset + i]]

(* Property.findAll({where, order, limit, offset}): the pages the store    *)
(* can return; none when it rejects the statement, which it does for a NaN *)
(* in the filter or in the offset and for a negative offset.               *)
PropertyFindAll(d, filtered, capacity, dir, limit, offset) ==
    IF (filtered /\ capacity.isNaN) \/ offset.isNaN \/ offset.value < 0 THEN {}
    ELSE LET rows == {x \in d.properties :
                         filtered => x.capacity = capacity.value}
         IN {Limit(o, offset.value, limit) : o \in Orders(rows, dir)}

GetProperties(d, r) ==
    LET capacity == IF Truthy(r.query, "capacity")
                    THEN parseInt(r.query.capacity) ELSE NaN
        dir == IF "sort" \in DOMAIN r.query /\ r.query.sort \in {"asc", "desc"}
               THEN r.query.sort ELSE "asc"
        offset == IF Truthy(r.query, "offset")
                  THEN parseInt(r.query.offset) ELSE Number(0)
        sqlOffset == IF offset.isNaN THEN NaN
                     ELSE Number(offset.value * PageSize)
        pages == PropertyFindAll(d, Truthy(r.query, "capacity"), capacity, dir,
                                 PageSize, sqlOffset)
    IN IF pages = {} THEN {Ended(d, Response(r.route, 500, ERR_LIST))}
       ELSE {Ended(d, ResponseList(r.route, 200, page)) : page \in pages}

(* The router: the handler mounted on the route of r.                      *)
Handler(d, r) ==
    CASE r.route = POST_RESERVATIONS -> PostReservation(d, r)
      [] r.route = GET_RESERVATIONS -> GetReservations(d, r)
      [] r.route = GET_RESERVATION -> GetReservation(d, r)
      [] r.route = PUT_RESERVATION -> PutReservation(d, r)
      [] r.route = DELETE_RESERVATION -> DeleteReservation(d, r)
      [] r.route = POST_SIGNUP -> Signup(d, r)
      [] r.route = GET_USER -> GetUser(d, r)
      [] r.route = PUT_USER -> PutUser(d, r)
      [] r.route = DELETE_USER -> DeleteUser(d, r)
      [] r.route = POST_PROPERTIES -> PostProperty(d, r)
      [] r.route = PUT_PROPERTY -> PutProperty(d, r)
      [] r.route = DELETE_PROPERTY -> DeleteProperty(d, r)
      [] r.route = GET_PROPERTIES -> GetProperties(d, r)

(* A handler run to its end with no other request in between.              *)
RECURSIVE Run(_, _)
Run(d, r) ==
    UNION {IF o.req.pc = "idle" THEN {o} ELSE Run(o.db, o.req) : o \in Handler(d, r)}

----------------------------------------------------------------------------
(* Requests a client can send in store d.  A verifiable token carries the  *)
(* id of a user that signed up (jwt.sign in /signup), stored or not.       *)

Credentials(d) ==
    {[hdr |-> h, tokenUser |-> 0] : h \in {"absent", "not_bearer", "bad_token"}}
    \cup {[hdr |-> "valid", tokenUser |-> u] : u \in 1..(d.nextUserId - 1)}

Start(route, cred) ==
    [IdleReq EXCEPT !.route = route, !.pc = "start", !.hdr = cred.hdr,
                    !.tokenUser = cred.tokenUser]

(* Body values.  The texts of the email and password fields.               *)
EMAIL_OK == <<"a", "@", "b", ".", "c", "o">>
EMAIL_SHORT_TLD == <<"a", "@", "b", ".", "c">>
EMAIL_NO_AT == <<"a", "b", ".", "c", "o">>

Emails == {EMAIL_OK, EMAIL_SHORT_TLD, EMAIL_NO_AT, <<>>}

PASSWORD_OK == <<"L", "o", "n", "g", "E", "n", "o", "u", "g", "h", "1", "!">>
PASSWORD_SHORT == <<"s", "h", "o", "r", "t", "1", "!">>
PASSWORD_NO_UPPER == <<"l", "o", "n", "g", "e", "n", "o", "u", "g", "h", "1", "!">>
PASSWORD_NO_LOWER == <<"L", "O", "N", "G", "E", "N", "O", "U", "G", "H", "1", "!">>
PASSWORD_DIGITS == <<"1", "2", "3", "4", "5", "6", "7", "8", "9", "0", "1", "2">>

Passwords ==
    {PASSWORD_OK, PASSWORD_SHORT, PASSWORD_NO_UPPER, PASSWORD_NO_LOWER,
     PASSWORD_DIGITS, <<>>}

Names == {"", "Ann"}

(* Text that is not a number, zero and a positive number.                  *)
PriceInputs == {NotANumber, 0, 1}
CapacityInputs == {NotANumber, 0, 1}

(* The bodies of POST /signup.                                             *)
UserBodies ==
    [email : Emails, password : Passwords, firstName : Names, lastName : Names,
     phoneNumber : Names]

(* The bodies of PUT /users/:id, with and without a password.              *)
UserUpdateBodies ==
    [password : Passwords, firstName : Names, lastName : Names,
     phoneNumber : Names]
    \cup [firstName : Names, lastName : Names, phoneNumber : Names]

(* The bodies of POST /properties and PUT /properties/:id.                 *)
PropertyBodies ==
    [name : Names, address : Names, city : Names, price : PriceInputs,
     capacity : CapacityInputs]

VALID_USER ==
    [email |-> EMAIL_OK, password |-> PASSWORD_OK, firstName |-> "Ann",
     lastName |-> "Ann", phoneNumber |-> "Ann"]

VALID_USER_UPDATE ==
    [firstName |-> "Ann", lastName |-> "Ann", phoneNumber |-> "Ann"]

VALID_PROPERTY ==
    [name |-> "Ann", address |-> "Ann", city |-> "Ann", price |-> 1,
     capacity |-> 1]

(* The bodies a client sends on a route: all of them, or one body that     *)
(* passes the chain of the route and one that fails it.                    *)
Bodies(route, all) ==
    CASE route = POST_SIGNUP ->
            IF all THEN UserBodies
            ELSE {VALID_USER, [VALID_USER EXCEPT !.password = PASSWORD_SHORT]}
      [] route = PUT_USER ->
            IF all THEN UserUpdateBodies
            ELSE {VALID_USER_UPDATE, [VALID_USER_UPDATE EXCEPT !.firstName = ""]}
      [] route \in {POST_PROPERTIES, PUT_PROPERTY} ->
            IF all THEN PropertyBodies
            ELSE {VALID_PROPERTY, [VALID_PROPERTY EXCEPT !.price = 0]}
      [] OTHER -> {NoBody}

RequestsWith(d, route, all) ==
    CASE route = POST_RESERVATIONS ->
            {[Start(route, c) EXCEPT !.propertyId = p, !.arrivalTime = a,
                                     !.departureTime = b, !.bodyUserId = u]
                : c \in Credentials(d), p \in PropertyIds, a \in DateInputs,
                  b \in DateInputs, u \in UserIds}
      [] route = PUT_RESERVATION ->
            {[Start(route, c) EXCEPT !.id = i, !.arrivalTime = a,
                                     !.departureTime = b, !.propertyId = p,
                                     !.bodyUserId = u]
                : c \in Credentials(d), i \in ReservationIds, a \in DateInputs,
                  b \in DateInputs,
                  p \in IF all THEN PropertyIds ELSE {0},
                  u \in IF all THEN UserIds ELSE {0}}
      [] route \in {GET_RESERVATION, DELETE_RESERVATION} ->
            {[Start(route, c) EXCEPT !.id = i]
                : c \in Credentials(d), i \in ReservationIds}
      [] route = GET_RESERVATIONS -> {Start(route, c) : c \in Credentials(d)}
      [] route = POST_SIGNUP ->
            {[Start(route, [hdr |-> "absent", tokenUser |-> 0]) EXCEPT !.body = b]
                : b \in Bodies(route, all)}
      [] route \in {GET_USER, DELETE_USER} ->
            {[Start(route, c) EXCEPT !.id = i] : c \in Credentials(d), i \in UserIds}
      [] route = PUT_USER ->
            {[Start(route, c) EXCEPT !.id = i, !.body = b]
                : c \in Credentials(d), i \in UserIds, b \in Bodies(route, all)}
      [] route = PUT_PROPERTY ->
            {[Start(route, c) EXCEPT !.id = i, !.body = b]
                : c \in Credentials(d), i \in PropertyIds,
                  b \in Bodies(route, all)}
      [] route = POST_PROPERTIES ->
            {[Start(route, c) EXCEPT !.body = b]
                : c \in Credentials(d), b \in Bodies(route, all)}
      [] route = DELETE_PROPERTY ->
            {[Start(route, c) EXCEPT !.id = i] : c \in Credentials(d), i \in PropertyIds}

(* The query strings of GET /properties: each parameter is absent or has   *)
(* one of a few texts.                                                     *)
CapacityTexts == {<<>>, <<"x">>, <<"1">>, <<"2">>, <<"1", ".", "9">>}

OffsetTexts == {<<"x">>, <<"-", "1">>, <<"0">>, <<"1">>, <<"2">>}

SortTexts == {"asc", "desc", "ASC"}

Params(f, texts) == {NoBody} \cup {f :> t : t \in texts}

Queries ==
    {c @@ o @@ t : c \in Params("capacity", CapacityTexts),
                   o \in Params("offset", OffsetTexts),
                   t \in Params("sort", SortTexts)}

(* The requests of the specifications that run every route: one passing   *)
(* and one failing body on each validated route.                           *)
Requests(d, route) == RequestsWith(d, route, FALSE)

(* The request on connection c is suspended at a store access, or waits    *)
(* to be served.                                                           *)
InFlight(c) == req[c].pc \notin {"idle", "done"}

(* The auto-increment counters are capped: a request that may insert is    *)
(* taken only while its table has an id left below the cap, counting the   *)
(* creates that are suspended before their insert.                         *)
PendingInserts == Cardinality({c \in Clients : req[c].pc = "insert"})

HasRoom(route) ==
    CASE route = POST_RESERVATIONS ->
            db.nextReservationId + PendingInserts <= MaxReservations
      [] route = POST_SIGNUP -> db.nextUserId <= MaxUsers
      [] route = POST_PROPERTIES -> db.nextPropertyId <= MaxProperties
      [] OTHER -> TRUE

----------------------------------------------------------------------------
(* The server *)

EmptyStore ==
    [users |-> {}, nextUserId |-> 1, properties |-> {}, nextPropertyId |-> 1,
     reservations |-> {}, nextReservationId |-> 1]

Init ==
    /\ db = EmptyStore
    /\ req = [c \in Clients |-> IdleReq]
    /\ resp = [c \in Clients |-> NoResp]
    /\ former = {}

Apply(c, o) ==
    /\ db' = o.db
    /\ req' = [req EXCEPT ![c] = o.req]
    /\ resp' = [resp EXCEPT ![c] = o.resp]
    /\ UNCHANGED former

(* The client of connection c has read the response; the connection is    *)
(* free for its next request.                                              *)
Close(c) ==
    /\ ~InFlight(c)
    /\ resp[c] # NoResp
    /\ req' = [req EXCEPT ![c] = IdleReq]
    /\ resp' = [resp EXCEPT ![c] = NoResp]
    /\ UNCHANGED <<db, former>>

Free(c) == req[c] = IdleReq /\ resp[c] = NoResp

(* A request arrives on connection c and runs to its first suspension.     *)
Arrive(c, route) ==
    /\ Free(c)
    /\ HasRoom(route)
    /\ \E r \in Requests(db, route) : \E o \in Handler(db, r) : Apply(c, o)

(* The suspended request of c resumes and runs its next segment.           *)
Resume(c) ==
    /\ InFlight(c)
    /\ req[c].pc # "start"
    /\ \E o \in Handler(db, req[c]) : Apply(c, o)

(* The server as it runs: the segments of the requests on the connections  *)
(* interleave.  The connections send reservation writes, signups and       *)
(* property creations.                                                     *)
ConcurrentRoutes ==
    {POST_RESERVATIONS, PUT_RESERVATION, DELETE_RESERVATION, POST_SIGNUP,
     POST_PROPERTIES}

Next ==
    \E c \in Clients :
        \/ \E route \in ConcurrentRoutes : Arrive(c, route)
        \/ Resume(c)
        \/ Close(c)

Spec == Init /\ [][Next]_vars

(* Requests handled one at a time: connection SeqClient sends a request,   *)
(* the server runs its handler to the end, and only then the next request  *)
(* is read.  The request stays on the connection, marked done, until the   *)
(* next one replaces it.                                                   *)
SeqClient == CHOOSE c \in Clients : TRUE

Receive(route) ==
    /\ Free(SeqClient)
    /\ HasRoom(route)
    /\ \E r \in Requests(db, route) :
            /\ req' = [req EXCEPT ![SeqClient] = r]
            /\ resp' = [resp EXCEPT ![SeqClient] = NoResp]
    /\ UNCHANGED <<db, former>>

Served ==
    /\ req[SeqClient].pc = "start"
    /\ \E o \in Run(db, req[SeqClient]) :
            /\ db' = o.db
            /\ req' = [req EXCEPT ![SeqClient].pc = "done"]
            /\ resp' = [resp EXCEPT ![SeqClient] = o.resp]

Serve == Served /\ UNCHANGED former

NextSeq == (\E route \in Routes : Receive(route)) \/ Serve \/ Close(SeqClient)

SpecSeq == Init /\ [][NextSeq]_vars

(* The validated routes, served one request at a time, with every body of  *)
(* the body sets above.                                                    *)
ValidatedRoutes ==
    {POST_RESERVATIONS, PUT_RESERVATION, POST_SIGNUP, PUT_USER, POST_PROPERTIES,
     PUT_PROPERTY}

ReceiveBody(route) ==
    /\ Free(SeqClient)
    /\ HasRoom(route)
    /\ \E r \in RequestsWith(db, route, TRUE) :
            /\ req' = [req EXCEPT ![SeqClient] = r]
            /\ resp' = [resp EXCEPT ![SeqClient] = NoResp]
    /\ UNCHANGED <<db, former>>

NextValidation ==
    (\E route \in ValidatedRoutes : ReceiveBody(route)) \/ Serve \/ Close(SeqClient)

SpecValidation == Init /\ [][NextValidation]_vars

(* GET /properties on a store that holds MaxListed properties, more than   *)
(* one page.  Property i costs i or i + 1, so that prices differ and       *)
(* neighbours can tie; the first n properties have capacity 1, the others  *)
(* capacity 2.                                                             *)
MaxListed == 7

ListedIds == 1..MaxListed

ListedProperties ==
    {{[id |-> i, price |-> i + dearer[i],
       capacity |-> IF i <= n THEN 1 ELSE 2] : i \in ListedIds}
        : dearer \in [ListedIds -> {0, 1}], n \in 0..MaxListed}

InitList ==
    /\ db \in {[EmptyStore EXCEPT !.properties = rows,
                                  !.nextPropertyId = MaxListed + 1]
                  : rows \in ListedProperties}
    /\ req = [c \in Clients |-> IdleReq]
    /\ resp = [c \in Clients |-> NoResp]
    /\ former = {}

ReceiveQuery ==
    /\ Free(SeqClient)
    /\ \E q \in Queries :
            /\ req' = [req EXCEPT ![SeqClient] =
                          [IdleReq EXCEPT !.route = GET_PROPERTIES,
                                          !.pc = "start", !.query = q]]
            /\ resp' = [resp EXCEPT ![SeqClient] = NoResp]
    /\ UNCHANGED <<db, former>>

NextList == ReceiveQuery \/ Serve \/ Close(SeqClient)

SpecList == InitList /\ [][NextList]_vars

(* The interval a stored reservation holds on its property.                *)
Interval(x) ==
    [PropertyId |-> x.PropertyId, arrivalTime |-> x.arrivalTime,
     departureTime |-> x.departureTime]

(* The routes that write, handled one request at a time, with the          *)
(* intervals that leave the store recorded: those of the reservations a    *)
(* step removes (deleted, or removed with their user or property) or       *)
(* moves.                                                                  *)
WritingRoutes ==
    {POST_SIGNUP, POST_PROPERTIES, POST_RESERVATIONS, PUT_RESERVATION,
     DELETE_RESERVATION, DELETE_USER, DELETE_PROPERTY}

(* The clients of this specification send bodies that pass the validation *)
(* chains, and a token on every protected route.                           *)
ReceiveWrite(route) ==
    /\ Free(SeqClient)
    /\ HasRoom(route)
    /\ \E r \in Requests(db, route) :
            /\ r.route \in ProtectedRoutes => r.hdr = "valid"
            /\ r.arrivalTime \in Times /\ r.departureTime \in Times
            /\ r.route = POST_RESERVATIONS => r.bodyUserId = r.tokenUser
            /\ r.body \in {NoBody, VALID_USER, VALID_PROPERTY}
            /\ req' = [req EXCEPT ![SeqClient] = r]
            /\ resp' = [resp EXCEPT ![SeqClient] = NoResp]
    /\ UNCHANGED <<db, former>>

ServeRecording ==
    /\ Served
    /\ former' = former \cup {Interval(x) : x \in db.reservations \ db'.reservations}

NextHistory ==
    \/ \E route \in WritingRoutes : ReceiveWrite(route)
    \/ ServeRecording
    \/ Close(SeqClient)

SpecHistory == Init /\ [][NextHistory]_vars

TypeOK ==
    /\ db.users \subseteq UserIds
    /\ \A x \in db.properties : x.id \in PropertyIds
    /\ \A x \in db.reservations : x.id \in ReservationIds
    /\ \A c \in Clients : req[c].hdr \in Headers

----------------------------------------------------------------------------
(* Vocabulary of the properties *)

S == SeqClient

(* The step of SpecSeq in which the handler of the request on S runs.      *)
Serving == req[S].pc = "start" /\ req'[S].pc = "done"

(* The request on S has been handled and its response is still there.      *)
Handled(route) == req[S].pc = "done" /\ req[S].route = route

Overlap(x, y) ==
    x.arrivalTime < y.departureTime /\ y.arrivalTime < x.departureTime

DoubleBooked(rows) ==
    \E x, y \in rows :
        x.id # y.id /\ x.PropertyId = y.PropertyId /\ Overlap(x, y)

FormatValid(r) == r.arrivalTime \in Times /\ r.departureTime \in Times

ValidPost(r) ==
    /\ r.route = POST_RESERVATIONS
    /\ r.hdr = "valid"
    /\ FormatValid(r)
    /\ r.departureTime > r.arrivalTime

ValidPut(r) ==
    /\ r.route = PUT_RESERVATION
    /\ r.hdr = "valid"
    /\ FormatValid(r)
    /\ r.departureTime > r.arrivalTime

(* Some row of rows on property p, other than the row with id except,      *)
(* overlaps the range of r.                                                *)
Conflicts(r, rows, p, except) ==
    \E x \in rows :
        /\ x.id # except
        /\ x.PropertyId = p
        /\ x.arrivalTime < r.departureTime
        /\ x.departureTime > r.arrivalTime

(* Some row of rows on property p, other than the row with id except,      *)
(* ends where the range of r starts or starts where it ends.               *)
Adjacent(r, rows, p, except) ==
    \E x \in rows :
        /\ x.id # except
        /\ x.PropertyId = p
        /\ (x.departureTime = r.arrivalTime \/ x.arrivalTime = r.departureTime)

(* The step adds exactly one reservation, with the property and times of r *)
(* and keeps every other one.                                              *)
AddsOne(r) ==
    /\ db.reservations \subseteq db'.reservations
    /\ Cardinality(db'.reservations \ db.reservations) = 1
    /\ \A x \in db'.reservations \ db.reservations :
          /\ x.PropertyId = r.propertyId
          /\ x.arrivalTime = r.arrivalTime
          /\ x.departureTime = r.departureTime

(* The step gives the row with id r.id the times of r and changes nothing  *)
(* else.                                                                   *)
Retimes(r) ==
    db'.reservations =
        {IF x.id = r.id
         THEN [x EXCEPT !.arrivalTime = r.arrivalTime,
                        !.departureTime = r.departureTime]
         ELSE x : x \in db.reservations}

Target(r) == {x \in db.reservations : x.id = r.id}

TargetProperty(r) == (CHOOSE x \in Target(r) : TRUE).PropertyId

OwnerStored(r) == r.tokenUser \in db.users

PropertyStored(r) == \E x \in db.properties : x.id = r.propertyId

----------------------------------------------------------------------------
(* C1: with requests handled one at a time, starting from the empty store, *)
(* no two distinct stored reservations of one property overlap.            *)
C1_NoDoubleBooking == ~DoubleBooked(db.reservations)

(* two reservations of one property are stored and the last request, an    *)
(* update, was applied                                                     *)
C1_Witness ==
    /\ Handled(PUT_RESERVATION)
    /\ resp[S].status = 200
    /\ \E x, y \in db.reservations : x.id # y.id /\ x.PropertyId = y.PropertyId

(* C2: the insert of POST /reservations does not repeat the overlap query: *)
(* a create that passed its query inserts its row and answers 201 whatever *)
(* was stored since, so that two concurrent creates for one property with  *)
(* overlapping ranges can both be answered 201 and both be stored.         *)
C2_InsertDoesNotRecheck ==
    [][\A c \in Clients :
          (/\ req[c].route = POST_RESERVATIONS
           /\ req[c].pc = "insert"
           /\ req'[c].pc = "idle"
           /\ req[c].user \in db.users
           /\ \E x \in db.properties : x.id = req[c].propertyId)
          => (resp'[c].status = 201 /\ AddsOne(req[c]))]_vars

(* both connections were answered 201 by POST /reservations and the store  *)
(* holds two overlapping reservations of one property                      *)
C2_Witness ==
    /\ \A c \in Clients :
          resp[c].route = POST_RESERVATIONS /\ resp[c].status = 201
    /\ DoubleBooked(db.reservations)

(* C3 as stated: a valid create handled alone is answered 400 'already     *)
(* booked' with the store unchanged iff a stored reservation of the same   *)
(* property overlaps it, and otherwise adds one reservation and is         *)
(* answered 201.                                                           *)
C3_Original ==
    [][(Serving /\ ValidPost(req[S])) =>
          IF Conflicts(req[S], db.reservations, req[S].propertyId, 0)
          THEN resp'[S] = Response(POST_RESERVATIONS, 400, ERR_BOOKED) /\ db' = db
          ELSE resp'[S].status = 201 /\ AddsOne(req[S])]_vars

(* C3 amended: as stated when the property named and the caller's user are *)
(* stored; when one of them is missing and nothing overlaps, the store     *)
(* refuses the insert: nothing is added and no 201 is sent.                *)
C3_Amended ==
    [][(Serving /\ ValidPost(req[S])) =>
          IF Conflicts(req[S], db.reservations, req[S].propertyId, 0)
          THEN resp'[S] = Response(POST_RESERVATIONS, 400, ERR_BOOKED) /\ db' = db
          ELSE IF PropertyStored(req[S]) /\ OwnerStored(req[S])
          THEN resp'[S].status = 201 /\ AddsOne(req[S])
          ELSE resp'[S].status # 201 /\ db' = db]_vars

(* a create was answered 201 although a reservation of another property    *)
(* overlaps its range                                                      *)
C3_Witness ==
    /\ Handled(POST_RESERVATIONS)
    /\ resp[S].status = 201
    /\ \E x, y \in db.reservations :
          /\ x.PropertyId = req[S].propertyId
          /\ x.arrivalTime = req[S].arrivalTime
          /\ x.departureTime = req[S].departureTime
          /\ y.PropertyId # x.PropertyId
          /\ Overlap(x, y)

(* C4: under every interleaving, every stored reservation departs strictly *)
(* after it arrives.                                                       *)
C4_DepartureAfterArrival ==
    \A x \in db.reservations : x.departureTime > x.arrivalTime

(* an update was applied while the other connection has a write suspended  *)
C4_Witness ==
    \E c, e \in Clients :
        /\ resp[c].route = PUT_RESERVATION
        /\ resp[c].status = 200
        /\ req[e].pc \in {"insert", "update"}
        /\ db.reservations # {}

(* C5 as stated: an authenticated, format-valid create or update whose     *)
(* departure is not after its arrival is answered 400 'departureTime must  *)
(* be after arrivalTime.' and leaves the store unchanged.                  *)
InvalidRangeWrite(r) ==
    /\ r.route \in {POST_RESERVATIONS, PUT_RESERVATION}
    /\ r.hdr = "valid"
    /\ FormatValid(r)
    /\ r.departureTime <= r.arrivalTime

C5_Original ==
    [][(Serving /\ InvalidRangeWrite(req[S])) =>
          (resp'[S] = Response(req[S].route, 400, ERR_RANGE) /\ db' = db)]_vars

(* C5 amended: such a create, and such an update of a stored reservation,  *)
(* is answered with the invalid-range error; such an update of an id that  *)
(* is not stored is answered 404 'Reservation not found.'; the store is    *)
(* unchanged in every case.                                                *)
C5_Amended ==
    [][(Serving /\ InvalidRangeWrite(req[S])) =>
          /\ db' = db
          /\ IF req[S].route = PUT_RESERVATION /\ Target(req[S]) = {}
             THEN resp'[S] = Response(PUT_RESERVATION, 404, ERR_RESERVATION_NOT_FOUND)
             ELSE resp'[S] = Response(req[S].route, 400, ERR_RANGE)]_vars

(* an update of a stored reservation with departure = arrival was refused  *)
(* with the invalid-range error                                            *)
C5_Witness ==
    /\ Handled(PUT_RESERVATION)
    /\ InvalidRangeWrite(req[S])
    /\ req[S].departureTime = req[S].arrivalTime
    /\ Target(req[S]) # {}
    /\ resp[S].error = ERR_RANGE

(* C6 as stated: a valid create, or update of another reservation, whose   *)
(* range touches a stored reservation of the same property end to end and  *)
(* overlaps none succeeds and both reservations are stored.                *)
BackToBackUpdateSucceeds ==
    (/\ Serving
     /\ ValidPut(req[S])
     /\ Target(req[S]) # {}
     /\ Adjacent(req[S], db.reservations, TargetProperty(req[S]), req[S].id)
     /\ ~Conflicts(req[S], db.reservations, TargetProperty(req[S]), req[S].id))
    => (resp'[S].status = 200 /\ Retimes(req[S]))

BackToBackCreate ==
    /\ Serving
    /\ ValidPost(req[S])
    /\ Adjacent(req[S], db.reservations, req[S].propertyId, 0)
    /\ ~Conflicts(req[S], db.reservations, req[S].propertyId, 0)

C6_Original ==
    [][/\ BackToBackCreate => (resp'[S].status = 201 /\ AddsOne(req[S]))
       /\ BackToBackUpdateSucceeds]_vars

(* C6 amended: as stated for an update; for a create, when the caller's    *)
(* user is stored.                                                         *)
C6_Amended ==
    [][/\ (BackToBackCreate /\ OwnerStored(req[S]))
              => (resp'[S].status = 201 /\ AddsOne(req[S]))
       /\ BackToBackUpdateSucceeds]_vars

(* a create was answered 201 and its reservation starts where another one  *)
(* of the same property ends                                               *)
C6_Witness ==
    /\ Handled(POST_RESERVATIONS)
    /\ resp[S].status = 201
    /\ \E x, y \in db.reservations :
          /\ y.PropertyId = req[S].propertyId
          /\ y.arrivalTime = req[S].arrivalTime
          /\ y.departureTime = req[S].departureTime
          /\ x.PropertyId = y.PropertyId
          /\ x.departureTime = y.arrivalTime

(* C7: a valid update of a stored reservation r handled alone is applied   *)
(* iff no other stored reservation of r's property overlaps the new range; *)
(* r's own interval never conflicts; a refused update leaves r as it was.  *)
C7_UpdateExcludesItself ==
    [][(Serving /\ ValidPut(req[S]) /\ Target(req[S]) # {}) =>
          IF Conflicts(req[S], db.reservations, TargetProperty(req[S]), req[S].id)
          THEN resp'[S] = Response(PUT_RESERVATION, 400, ERR_BOOKED) /\ db' = db
          ELSE resp'[S].status = 200 /\ Retimes(req[S])]_vars

(* the only reservation ever created was resized to the whole time line,   *)
(* which overlaps whatever range it had                                    *)
C7_Witness ==
    /\ Handled(PUT_RESERVATION)
    /\ resp[S].status = 200
    /\ db.nextReservationId = 2
    /\ \E x \in db.reservations :
          x.id = req[S].id /\ x.arrivalTime = 0 /\ x.departureTime = MaxTime

(* C8: on a bearer-protected route a request without a 'Bearer ' header is *)
(* answered 401 and one whose token fails verification 400, whatever its   *)
(* body, with the store unchanged; only a verified token gets past.        *)
C8_AuthGate ==
    [][(Serving /\ req[S].route \in ProtectedRoutes) =>
          /\ req[S].hdr \in {"absent", "not_bearer"} =>
                (resp'[S] = Response(req[S].route, 401, ERR_NO_TOKEN) /\ db' = db)
          /\ req[S].hdr = "bad_token" =>
                (resp'[S] = Response(req[S].route, 400, ERR_INVALID_TOKEN) /\ db' = db)
          /\ req[S].hdr = "valid" =>
                resp'[S].error \notin {ERR_NO_TOKEN, ERR_INVALID_TOKEN}]_vars

(* an update with a header that is no bearer token and a body the          *)
(* validation chain would refuse was answered 401                          *)
C8_Witness ==
    /\ Handled(PUT_RESERVATION)
    /\ req[S].hdr = "not_bearer"
    /\ req[S].arrivalTime = NotADate
    /\ resp[S].status = 401
    /\ db.reservations # {}

(* C9: the owner of a reservation created by POST /reservations is the     *)
(* user of the caller's token, whatever user id the body carries.          *)
C9_OwnerFromToken ==
    [][(Serving /\ req[S].route = POST_RESERVATIONS /\ resp'[S].status = 201) =>
          /\ db'.reservations # db.reservations
          /\ \A x \in db'.reservations \ db.reservations :
                x.UserId = req[S].tokenUser]_vars

(* a create whose body names another user was answered 201 and its row is  *)
(* owned by the token's user                                               *)
C9_Witness ==
    /\ Handled(POST_RESERVATIONS)
    /\ resp[S].status = 201
    /\ req[S].bodyUserId # req[S].tokenUser
    /\ \E x \in db.reservations :
          x.id = db.nextReservationId - 1 /\ x.UserId = req[S].tokenUser

(* C10: GET /reservations with the token of user A returns exactly the     *)
(* stored reservations owned by A.                                         *)
C10_ListOnlyOwn ==
    (Handled(GET_RESERVATIONS) /\ req[S].hdr = "valid") =>
        /\ resp[S].status = 200
        /\ resp[S].body \subseteq db.reservations
        /\ \A x \in db.reservations :
              x \in resp[S].body <=> x.UserId = req[S].tokenUser

(* a listing returned a reservation while another user's is stored         *)
C10_Witness ==
    /\ Handled(GET_RESERVATIONS)
    /\ resp[S].body # {}
    /\ \E x \in db.reservations : x.UserId # req[S].tokenUser

----------------------------------------------------------------------------
(* The predicates the chain of the route of r states about its body, each  *)
(* with its field, its message and whether the body satisfies it.  The     *)
(* password predicates of the user update are stated of a body that        *)
(* carries a password.                                                     *)
Predicate(path, msg, ok) == [path |-> path, msg |-> msg, ok |-> ok]

PasswordPredicates(b) ==
    {Predicate("password", "Password must be at least 10 characters long",
               Len(b.password) >= 10),
     Predicate("password", "Password must contain at least one uppercase letter",
               \E i \in DOMAIN b.password : b.password[i] \in Upper),
     Predicate("password", "Password must contain at least one lowercase letter",
               \E i \in DOMAIN b.password : b.password[i] \in Lower),
     Predicate("password", "Password must contain at least one special character",
               \E i \in DOMAIN b.password : b.password[i] \in Special)}

NamePredicates(b) ==
    {Predicate("firstName", "First name is required", b.firstName # ""),
     Predicate("lastName", "Last name is required", b.lastName # ""),
     Predicate("phoneNumber", "Phone number is required", b.phoneNumber # "")}

Predicates(r) ==
    CASE r.route = POST_SIGNUP ->
            {Predicate("email", "Must be a valid email", isEmail(r.body.email)),
             Predicate("email", "Must be a valid email format",
                       MatchesEmailFormat(r.body.email))}
            \cup PasswordPredicates(r.body) \cup NamePredicates(r.body)
      [] r.route = PUT_USER ->
            (IF "password" \in DOMAIN r.body THEN PasswordPredicates(r.body) ELSE {})
            \cup NamePredicates(r.body)
      [] r.route \in {POST_PROPERTIES, PUT_PROPERTY} ->
            {Predicate("name", "Name is required", r.body.name # ""),
             Predicate("address", "Address is required", r.body.address # ""),
             Predicate("city", "City is required", r.body.city # ""),
             Predicate("price", "Price must be a positive number",
                       r.body.price \in Nat \ {0}),
             Predicate("capacity", "Capacity must be a positive integer",
                       r.body.capacity \in Nat \ {0})}
      [] r.route \in {POST_RESERVATIONS, PUT_RESERVATION} ->
            {Predicate("arrivalTime", "Must be a valid date",
                       r.arrivalTime # NotADate),
             Predicate("departureTime", "Must be a valid date",
                       r.departureTime # NotADate)}

FailedPredicates(r) ==
    {[path |-> q.path, msg |-> q.msg] : q \in {q \in Predicates(r) : ~q.ok}}

(* The request reaches the chain of its route: the route has no gate, or   *)
(* the gate lets the request through.                                      *)
ReachesChain(r) ==
    r.route \in ValidatedRoutes /\ (r.route = POST_SIGNUP \/ r.hdr = "valid")

(* C11: a request that reaches the validation chain of its route and fails *)
(* at least one predicate of it is answered 400 with the errors of all its *)
(* failed predicates, of every field, and the store is unchanged (no       *)
(* handler ran); a request that fails none is answered by the handler, and *)
(* a row the handler creates has the values of the request.                *)
C11_ValidationPipeline ==
    [][(Serving /\ ReachesChain(req[S])) =>
          LET failed == FailedPredicates(req[S]) IN
          IF failed # {}
          THEN /\ resp'[S] = [route |-> req[S].route, status |-> 400,
                              error |-> ERR_VALIDATION, body |-> failed,
                              list |-> <<>>]
               /\ db' = db
          ELSE /\ resp'[S].error # ERR_VALIDATION
               /\ req'[S] = [req[S] EXCEPT !.pc = "done"]
               /\ (req[S].route = POST_RESERVATIONS /\ resp'[S].status = 201)
                      => AddsOne(req[S])]_vars

(* a signup whose password fails three predicates and whose first name is  *)
(* empty was answered with all four errors                                 *)
C11_Witness ==
    /\ Handled(POST_SIGNUP)
    /\ req[S].body.password = PASSWORD_DIGITS
    /\ req[S].body.firstName = ""
    /\ req[S].body.lastName # ""
    /\ resp[S].status = 400
    /\ Cardinality(resp[S].body) >= 4
    /\ \E e \in resp[S].body : e.path = "firstName"

----------------------------------------------------------------------------
(* C12: every request that has been handled has its one response, and when *)
(* a store operation failed in its handler the response is a JSON error    *)
(* body sent by the application: no handled request is without a response  *)
(* and none is answered by the framework's page for an unhandled fault.    *)
C12_EveryRequestAnswered ==
    \A c \in Clients :
        req[c].pc = "done" =>
            /\ resp[c] # Unhandled(req[c].route)
            /\ resp[c].status # 0
            /\ resp[c].error # ERR_FRAMEWORK

----------------------------------------------------------------------------
(* The numeral s, a text of digits only, and the number it writes.         *)
IsNumeral(s) == s # <<>> /\ \A i \in DOMAIN s : s[i] \in DigitChars

RECURSIVE NumeralValue(_)
NumeralValue(s) ==
    IF s = <<>> THEN 0
    ELSE 10 * NumeralValue(SubSeq(s, 1, Len(s) - 1)) + DigitValue(s[Len(s)])

(* Row x comes before row y in price order of direction dir.               *)
Before(x, y, dir) ==
    IF dir = "desc" THEN x.price > y.price ELSE x.price < y.price

(* The query of r has a numeral, or nothing, for capacity and for offset.  *)
NumeralQuery(r) ==
    /\ r.route = GET_PROPERTIES
    /\ "capacity" \in DOMAIN r.query => IsNumeral(r.query.capacity)
    /\ "offset" \in DOMAIN r.query => IsNumeral(r.query.offset)

(* The properties the query of r asks for.                                 *)
Matching(r) ==
    {x \in db.properties :
        "capacity" \in DOMAIN r.query =>
            x.capacity = NumeralValue(r.query.capacity)}

----------------------------------------------------------------------------
(* C14: in every state reached by requests handled one after another,      *)
(* every stored reservation refers to a stored user and to exactly one     *)
(* stored property.                                                        *)
C14_ReferentialIntegrity ==
    \A x \in db.reservations :
        /\ x.UserId \in db.users
        /\ Cardinality({p \in db.properties : p.id = x.PropertyId}) = 1

(* a user was deleted and a reservation, of another user, is stored        *)
C14_Witness ==
    /\ Handled(DELETE_USER)
    /\ resp[S].status = 200
    /\ req[S].id \notin db.users
    /\ db.reservations # {}

----------------------------------------------------------------------------
(* C15: an update or delete of a stored reservation by an authenticated    *)
(* caller who is not its owner leaves the reservation as it is.            *)
C15_WritesGatedByOwnership ==
    [][(/\ Serving
        /\ req[S].route \in {PUT_RESERVATION, DELETE_RESERVATION}
        /\ req[S].hdr = "valid"
        /\ \E x \in Target(req[S]) : x.UserId # req[S].tokenUser)
          => Target(req[S]) \subseteq db'.reservations]_vars

----------------------------------------------------------------------------
(* An interval that left the store, on property p, overlaps the range of   *)
(* r.                                                                      *)
FormerOverlap(r, p) ==
    \E f \in former :
        /\ f.PropertyId = p
        /\ f.arrivalTime < r.departureTime
        /\ f.departureTime > r.arrivalTime

(* A valid create whose range overlaps an interval that left the store and *)
(* no stored reservation of its property.                                  *)
FreedCreate ==
    /\ Serving
    /\ ValidPost(req[S])
    /\ FormerOverlap(req[S], req[S].propertyId)
    /\ ~Conflicts(req[S], db.reservations, req[S].propertyId, 0)

(* A valid update of a stored reservation to a range that overlaps an      *)
(* interval that left the store and no other stored reservation of its     *)
(* property is applied.                                                    *)
FreedUpdateAccepted ==
    (/\ Serving
     /\ ValidPut(req[S])
     /\ Target(req[S]) # {}
     /\ FormerOverlap(req[S], TargetProperty(req[S]))
     /\ ~Conflicts(req[S], db.reservations, TargetProperty(req[S]), req[S].id))
    => (resp'[S].status = 200 /\ Retimes(req[S]))

(* C16 as stated: once a reservation was deleted or moved, a later valid   *)
(* create or update for the same property whose range overlaps only its    *)
(* former interval is accepted.                                            *)
C16_Original ==
    [][/\ FreedCreate => (resp'[S].status = 201 /\ AddsOne(req[S]))
       /\ FreedUpdateAccepted]_vars

(* C16 amended: such a write is never refused as a conflict; the update is *)
(* applied, and the create is accepted when its property and the caller's  *)
(* user are stored.                                                        *)
C16_Amended ==
    [][/\ FreedCreate =>
              /\ resp'[S].error # ERR_BOOKED
              /\ (PropertyStored(req[S]) /\ OwnerStored(req[S]))
                     => (resp'[S].status = 201 /\ AddsOne(req[S]))
       /\ FreedUpdateAccepted]_vars

(* a create was accepted on the interval a moved or deleted reservation of *)
(* the property held before, and no other reservation of the property is   *)
(* stored                                                                  *)
C16_Witness ==
    /\ Handled(POST_RESERVATIONS)
    /\ resp[S].status = 201
    /\ \E f \in former :
          /\ f.PropertyId = req[S].propertyId
          /\ f.arrivalTime = req[S].arrivalTime
          /\ f.departureTime = req[S].departureTime
    /\ Cardinality({x \in db.reservations : x.PropertyId = req[S].propertyId}) = 1

----------------------------------------------------------------------------
(* C17: an update answered 200 gives the addressed reservation the times   *)
(* of the request and changes nothing else: the id, the owner and the      *)
(* property of the reservation stay, whatever property or user the body    *)
(* names, and so do every other reservation, the properties and the users. *)
C17_UpdateFrame ==
    [][(/\ Serving
        /\ req[S].route = PUT_RESERVATION
        /\ resp'[S].status = 200)
          => /\ Retimes(req[S])
             /\ Target(req[S]) # {}
             /\ db'.users = db.users
             /\ db'.properties = db.properties]_vars

(* an update was applied whose body names another property and another     *)
(* user than those of the reservation                                      *)
C17_Witness ==
    /\ Handled(PUT_RESERVATION)
    /\ resp[S].status = 200
    /\ \E x \in Target(req[S]) :
          /\ x.arrivalTime = req[S].arrivalTime
          /\ x.departureTime = req[S].departureTime
          /\ x.PropertyId # req[S].propertyId
          /\ x.UserId # req[S].bodyUserId
          /\ req[S].propertyId \in PropertyIds
          /\ req[S].bodyUserId \in UserIds

====
